---- MODULE Spec2Model ----
(***************************************************************************)
(* Model of the ground-reaction force/moment prediction engine of          *)
(* OpenSimRT (RealTime/src/experimental/GRFMPrediction.cpp).               *)
(*                                                                         *)
(* Numbers.  A double is modelled as a record: a finite value (an integer  *)
(* in the unit of the quantity), a NaN, or an infinity.  Blend factors     *)
(* (the results of the two transition functions) are finite values in      *)
(* thousandths, so 1000 stands for 1.0.  Products with a blend factor are  *)
(* rounded down to the unit, sums and differences of finite values are     *)
(* exact.                                                                  *)
(***************************************************************************)
EXTENDS Integers, Sequences, FiniteSets, TLC

\* ------------------------------------------------------------------------
\* Bounds of the model
\* ------------------------------------------------------------------------
\* largest timestamp (and event time) of a sample
MaxTime == 2
\* longest method name drawn letter by letter
MaxNameLen == 2

\* ------------------------------------------------------------------------
\* Floating-point values
\* ------------------------------------------------------------------------
Fin(x) == [k |-> "fin", v |-> x]
NaN == [k |-> "nan", v |-> 0]
PInf == [k |-> "inf", v |-> 1]
NInf == [k |-> "inf", v |-> -1]

IsFin(a) == a.k = "fin"
IsNaN(a) == a.k = "nan"
Sgn(x) == IF x > 0 THEN 1 ELSE IF x < 0 THEN -1 ELSE 0
Abs(x) == IF x < 0 THEN -x ELSE x
Inf(s) == IF s > 0 THEN PInf ELSE NInf

\* IEEE comparison a < b: false as soon as one side is a NaN
FLess(a, b) ==
    IF IsNaN(a) \/ IsNaN(b) THEN FALSE
    ELSE IF IsFin(a) /\ IsFin(b) THEN a.v < b.v
    ELSE IF IsFin(a) THEN b.v > 0
    ELSE IF IsFin(b) THEN a.v < 0
    ELSE a.v < b.v

FNeg(a) == IF IsFin(a) THEN Fin(-a.v) ELSE IF IsNaN(a) THEN NaN ELSE Inf(-a.v)

FAdd(a, b) ==
    IF IsNaN(a) \/ IsNaN(b) THEN NaN
    ELSE IF IsFin(a) /\ IsFin(b) THEN Fin(a.v + b.v)
    ELSE IF IsFin(a) THEN b
    ELSE IF IsFin(b) THEN a
    ELSE IF a.v = b.v THEN a ELSE NaN

FSub(a, b) == FAdd(a, FNeg(b))

\* the product of a value and a blend factor given in thousandths
FScale(f, a) ==
    IF IsNaN(a) \/ IsNaN(f) THEN NaN
    ELSE IF IsFin(a) /\ IsFin(f) THEN Fin((a.v * f.v) \div 1000)
    ELSE IF Sgn(a.v) * Sgn(f.v) = 0 THEN NaN
    ELSE Inf(Sgn(a.v) * Sgn(f.v))

\* Vec3
Vec(x, y, z) == <<Fin(x), Fin(y), Fin(z)>>
ZeroVec == Vec(0, 0, 0)
NaNVec == <<NaN, NaN, NaN>>
VAdd(a, b) == [i \in 1..3 |-> FAdd(a[i], b[i])]
VSub(a, b) == [i \in 1..3 |-> FSub(a[i], b[i])]
VScale(f, a) == [i \in 1..3 |-> FScale(f, a[i])]

\* ------------------------------------------------------------------------
\* Utils: clip
\* ------------------------------------------------------------------------
FMin(a, b) == IF FLess(b, a) THEN b ELSE a
FMax(a, b) == IF FLess(a, b) THEN b ELSE a
\* the value n limited to [lower, upper]; every comparison with a NaN is
\* false, which leaves the lower limit
clip(n, lower, upper) == FMax(lower, FMin(n, upper))

\* ------------------------------------------------------------------------
\* exp in fixed point
\* ------------------------------------------------------------------------
ExpScale == 10000
Square4(v) ==
    LET s1 == (v * v) \div ExpScale
        s2 == (s1 * s1) \div ExpScale
        s3 == (s2 * s2) \div ExpScale
    IN  (s3 * s3) \div ExpScale
\* exp(-n/d) in thousandths for n >= 0, d > 0: the series of exp(-z) at
\* z = n/(16 d), raised to the 16th power
ExpNeg(n, d) ==
    IF n >= 8 * d THEN 0
    ELSE LET z  == (n * ExpScale) \div (16 * d)
             t2 == (z * z) \div (2 * ExpScale)
             t3 == (t2 * z) \div (3 * ExpScale)
             t4 == (t3 * z) \div (4 * ExpScale)
         IN  Square4(ExpScale - z + t2 - t3 + t4) \div 10
\* the largest finite value the fixed point keeps
Huge == 1000000
\* std::exp of the rational n/d (d > 0)
ExpRat(n, d) ==
    IF n <= 0 THEN Fin(ExpNeg(-n, d))
    ELSE IF ExpNeg(n, d) = 0 THEN Fin(Huge)
    ELSE Fin(1000000 \div ExpNeg(n, d))

\* ------------------------------------------------------------------------
\* STA transition function of the double-support phase
\* ------------------------------------------------------------------------
\* std::exp(-std::pow(2.0 * t / Tds, 3)) for integer t and Tds
TransitionRaw(t, tds) ==
    IF tds = 0
    THEN IF t = 0 THEN NaN              \* 0/0
         ELSE IF t > 0 THEN Fin(0)      \* exp(-inf)
         ELSE PInf                      \* exp(+inf)
    ELSE LET n == 8 * t * t * t
             d == tds * tds * tds
         IN  IF d > 0 THEN ExpRat(-n, d) ELSE ExpRat(n, -d)

reactionComponentTransitionNoClip(t, tds) == TransitionRaw(t, tds)

reactionComponentTransition(t, tds) ==
    clip(TransitionRaw(t, tds), Fin(0), Fin(1000))

\* ------------------------------------------------------------------------
\* CoP trajectory of the single-support phase
\* ------------------------------------------------------------------------
\* sin of k quarter turns
SinQuarter(k) ==
    CASE k % 4 = 0 -> 0
      [] k % 4 = 1 -> 1
      [] k % 4 = 2 -> 0
      [] k % 4 = 3 -> -1
\* 2/(3 Pi) in thousandths
TwoOver3Pi == 212
\* -2/(3 Pi) * (sin(omega t) - sin(2 omega t)/8 - 3/4 omega t) with
\* omega = 2 Pi / Tss; omega t is k = 4 t / Tss quarter turns, and
\* 2/(3 Pi) * 3/4 * omega t = t / Tss
ScaleRaw(t, tss) ==
    IF tss = 0 THEN NaN                 \* omega = inf: inf * 0 or sin(inf)
    ELSE LET k == (4 * t) \div tss
         IN  Fin((1000 * t) \div tss
                 - TwoOver3Pi * SinQuarter(k)
                 + (TwoOver3Pi * SinQuarter(2 * k)) \div 8)

copScaleNoClip(t, tss) == ScaleRaw(t, tss)

\* the scale factor of copPosition
copScale(t, tss) == clip(ScaleRaw(t, tss), Fin(0), Fin(1000))

\* scale * d
copPosition(t, d, tss) == VScale(copScale(t, tss), d)

\* ------------------------------------------------------------------------
\* External collaborators: the biomechanical model
\* ------------------------------------------------------------------------
\* generalized coordinates of a sample (input.q); 0 is the default pose of
\* initSystem
Poses == 1..2
\* generalized accelerations of a sample (input.qDDot)
Accels == 1..2

\* x-axis of the pelvis in the ground frame, in thousandths
PelvisHeading(q) ==
    CASE q = 1 -> <<1000, 0, 0>>
      [] q = 2 -> <<0, 0, 1000>>
      [] q = 3 -> <<-1000, 0, 0>>
      [] q = 4 -> <<0, 0, -1000>>
      [] OTHER -> <<1000, 0, 0>>

\* station points in the ground frame
HeelR(q) == IF q = 2 THEN Vec(-10, 0, 30) ELSE Vec(0, 0, 10)
ToeR(q) == IF q = 2 THEN Vec(-10, 0, 50) ELSE Vec(20, 0, 10)
HeelL(q) == IF q = 2 THEN Vec(10, 0, 0) ELSE Vec(0, 0, -10)
ToeL(q) == IF q = 2 THEN Vec(10, 0, 20) ELSE Vec(20, 0, -10)

\* total reaction of the body in the ground frame, before the rotation
TotalForce(q, a) == IF a = 1 THEN Vec(10, 100, 0) ELSE Vec(-30, 80, 40)
TotalMoment(q, a) == IF a = 1 THEN Vec(0, 5, 20) ELSE Vec(6, 0, -8)

\* ------------------------------------------------------------------------
\* Gait direction
\* ------------------------------------------------------------------------
directionWindowSize == 2

\* SlidingWindow::insert
BufferInsert(buf, x) ==
    IF Len(buf) = directionWindowSize THEN Append(Tail(buf), x)
    ELSE Append(buf, x)

RECURSIVE SumVec(_)
SumVec(buf) ==
    IF buf = <<>> THEN <<0, 0, 0>>
    ELSE [i \in 1..3 |-> Head(buf)[i] + SumVec(Tail(buf))[i]]

\* SlidingWindow::mean over the headings present
BufferMean(buf) == [i \in 1..3 |-> SumVec(buf)[i] \div Len(buf)]

\* projection on the plane through the origin with normal (0, 1, 0)
projectionOnPlane(v) == <<v[1], 0, v[3]>>

\* integer square root, by bisection of lo..hi
RECURSIVE ISqrtIn(_, _, _)
ISqrtIn(n, lo, hi) ==
    IF lo = hi THEN lo
    ELSE LET mid == (lo + hi + 1) \div 2
         IN  IF mid * mid <= n THEN ISqrtIn(n, mid, hi)
             ELSE ISqrtIn(n, lo, mid - 1)
ISqrt(n) == ISqrtIn(n, 0, 2000)

\* Rotation(q, y) with q = atan(|cross(g, x)| / dot(g, x)), as the pair
\* (cos q, sin q) in thousandths.  |cross| = |g.z| and dot = g.x, so q lies
\* in (-Pi/2, Pi/2]: cos q = |g.x| / |g| and sin q = sign(g.x) |g.z| / |g|;
\* a zero dot yields atan(inf) = Pi/2, and 0/0 yields a NaN angle.
GaitRotation(g) ==
    LET crossNorm == Abs(g[3])
        dotProd == g[1]
        len == ISqrt(g[1] * g[1] + g[3] * g[3])
    IN  IF dotProd = 0
        THEN IF crossNorm = 0 THEN [c |-> NaN, s |-> NaN]
             ELSE [c |-> Fin(0), s |-> Fin(1000)]
        ELSE [c |-> Fin((Abs(dotProd) * 1000) \div len),
              s |-> Fin((Sgn(dotProd) * crossNorm * 1000) \div len)]

\* R * v for the rotation R about (0, 1, 0)
Rotate(R, v) ==
    <<FAdd(FScale(R.c, v[1]), FScale(R.s, v[3])),
      IF IsNaN(R.c) THEN NaN ELSE v[2],
      FSub(FScale(R.c, v[3]), FScale(R.s, v[1]))>>

\* ------------------------------------------------------------------------
\* Gait phase detector readings
\* ------------------------------------------------------------------------
Phases == {"DOUBLE_SUPPORT", "LEFT_SWING", "RIGHT_SWING", "INVALID"}
Legs == {"RIGHT", "LEFT", "INVALID"}
\* double-support durations the detector reports
TdsValues == {0, 2}
\* single-support durations the detector reports
TssValues == {0, 4}
\* contents of a Vec3 that was never assigned
Uninit == {<<NaNVec, NaNVec>>, <<Vec(7, -3, 11), Vec(0, 1, -5)>>}

\* ------------------------------------------------------------------------
\* STA: separation of the total reaction
\* ------------------------------------------------------------------------
\* trailing leg component: the anchor times the transition function
trailingReactionComponent(time, totalReactionAtThs, tds) ==
    VScale(reactionComponentTransition(time, tds), totalReactionAtThs)

leadingReactionComponentWhole(totalReactionComponent, trailing) ==
    totalReactionComponent

\* leading leg component: what the trailing leg leaves of the total
leadingReactionComponent(totalReactionComponent, trailing) ==
    VSub(totalReactionComponent, trailing)

\* the DOUBLE_SUPPORT case; right and left are the out-parameters, uR and uL
\* are what they held when the call was made
doubleSupportComponents(time, totalReactionComponent, totalReactionAtThs, tds, leg, uR, uL) ==
    LET trailing == trailingReactionComponent(time, totalReactionAtThs, tds)
        leading == leadingReactionComponent(totalReactionComponent, trailing)
    IN  CASE leg = "RIGHT" -> [right |-> leading, left |-> trailing]
          [] leg = "LEFT" -> [right |-> trailing, left |-> leading]
          [] OTHER -> [right |-> uR, left |-> uL]

seperateReactionComponentsSwingSwapped(time, totalReactionComponent, totalReactionAtThs, tds, phase, leg, uR, uL) ==
    CASE phase = "DOUBLE_SUPPORT" ->
           doubleSupportComponents(time, totalReactionComponent,
                                   totalReactionAtThs, tds, leg, uR, uL)
      [] phase = "LEFT_SWING" ->
           [right |-> ZeroVec, left |-> totalReactionComponent]
      [] phase = "RIGHT_SWING" ->
           [right |-> totalReactionComponent, left |-> ZeroVec]
      [] OTHER -> [right |-> ZeroVec, left |-> ZeroVec]

seperateReactionComponentsNoDefault(time, totalReactionComponent, totalReactionAtThs, tds, phase, leg, uR, uL) ==
    CASE phase = "DOUBLE_SUPPORT" ->
           doubleSupportComponents(time, totalReactionComponent,
                                   totalReactionAtThs, tds, leg, uR, uL)
      [] phase = "LEFT_SWING" ->
           [right |-> totalReactionComponent, left |-> ZeroVec]
      [] phase = "RIGHT_SWING" ->
           [right |-> ZeroVec, left |-> totalReactionComponent]
      [] OTHER -> [right |-> uR, left |-> uL]

seperateReactionComponents(time, totalReactionComponent, totalReactionAtThs, tds, phase, leg, uR, uL) ==
    CASE phase = "DOUBLE_SUPPORT" ->
           doubleSupportComponents(time, totalReactionComponent,
                                   totalReactionAtThs, tds, leg, uR, uL)
      [] phase = "LEFT_SWING" ->
           [right |-> totalReactionComponent, left |-> ZeroVec]
      [] phase = "RIGHT_SWING" ->
           [right |-> ZeroVec, left |-> totalReactionComponent]
      [] OTHER -> [right |-> ZeroVec, left |-> ZeroVec]

\* ------------------------------------------------------------------------
\* CoP
\* ------------------------------------------------------------------------
doubleSupportPointsToeLeading(st, leg, uR, uL) ==
    CASE leg = "RIGHT" -> [right |-> ToeR(st), left |-> HeelL(st)]
      [] leg = "LEFT" -> [right |-> HeelR(st), left |-> ToeL(st)]
      [] OTHER -> [right |-> uR, left |-> uL]

\* the DOUBLE_SUPPORT case
doubleSupportPoints(st, leg, uR, uL) ==
    CASE leg = "RIGHT" -> [right |-> HeelR(st), left |-> ToeL(st)]
      [] leg = "LEFT" -> [right |-> ToeR(st), left |-> HeelL(st)]
      [] OTHER -> [right |-> uR, left |-> uL]

stancePointSinceStart(t, tto, tss, heel, toe) ==
    VAdd(heel, copPosition(t, VSub(toe, heel), tss))

\* CoP of the stance leg of a swing phase: d = toe - heel, time = t - Tto
stancePoint(t, tto, tss, heel, toe) ==
    VAdd(heel, copPosition(t - tto, VSub(toe, heel), tss))

computeReactionPoint(t, st, tss, phase, leg, tto, uR, uL) ==
    CASE phase = "DOUBLE_SUPPORT" -> doubleSupportPoints(st, leg, uR, uL)
      [] phase = "LEFT_SWING" ->
           [right |-> stancePoint(t, tto, tss, HeelR(st), ToeR(st)),
            left |-> ZeroVec]
      [] phase = "RIGHT_SWING" ->
           [right |-> ZeroVec,
            left |-> stancePoint(t, tto, tss, HeelL(st), ToeL(st))]
      [] OTHER -> [right |-> ZeroVec, left |-> ZeroVec]

\* ------------------------------------------------------------------------
\* State
\* ------------------------------------------------------------------------
VARIABLES
    state,                \* model state: the coordinates last pushed into it
    gaitDirectionBuffer,  \* sliding window of pelvis headings
    totalForceAtThs,      \* heel-strike anchor of the force
    totalMomentAtThs,     \* heel-strike anchor of the moment
    Tds,                  \* double-support duration last read
    Tss,                  \* single-support duration last read
    now,                  \* timestamp of the latest sample of the stream
    pc,                   \* "idle", or "done" when solve has just returned
    input,                \* the sample of the call that just returned
    detector,             \* what the detector reported to that call
    total,                \* rotated total force and moment of that call
    output,               \* the record that call returned
    methodName,           \* method name of the configuration
    method,               \* the method selected for it
    latchedAt             \* history: heel-strike time of the sample that
                          \* latched the anchor, -1 while none has

vars == <<state, gaitDirectionBuffer, totalForceAtThs, totalMomentAtThs, Tds,
          Tss, now, pc, input, detector, total, output, methodName, method,
          latchedAt>>

engine == <<state, gaitDirectionBuffer, totalForceAtThs, totalMomentAtThs,
            Tds, Tss>>

Times == 0..MaxTime

NoInput == [t |-> 0, q |-> 0, qDDot |-> 0]
NoDetector == [ready |-> FALSE, phase |-> "INVALID", leg |-> "INVALID",
               Ths |-> 0, Tto |-> 0, Tds |-> 0, Tss |-> 0]
NoTotal == [force |-> ZeroVec, moment |-> ZeroVec]
ZeroLeg == [force |-> ZeroVec, torque |-> ZeroVec, point |-> ZeroVec]
NoOutput == [t |-> 0, right |-> ZeroLeg, left |-> ZeroLeg]

\* the readings a call can take; a reading the call never takes keeps the
\* value it has in NoDetector
NotReadyReadings == {[NoDetector EXCEPT !.Ths = ths] : ths \in Times}
ReadyReadings ==
    LET base == {[NoDetector EXCEPT !.ready = TRUE, !.Ths = ths,
                                    !.Tds = tds, !.Tss = tss] :
                    ths \in Times, tds \in TdsValues, tss \in TssValues}
    IN  {[b EXCEPT !.phase = "DOUBLE_SUPPORT", !.leg = l] :
            b \in base, l \in Legs}
        \cup {[b EXCEPT !.phase = p, !.Tto = tto] :
                b \in base, p \in {"LEFT_SWING", "RIGHT_SWING"}, tto \in Times}
        \cup base
Readings == NotReadyReadings \cup ReadyReadings

\* what the six local result vectors of solve hold before they are assigned;
\* they are read only after a double support with an invalid leading leg
Locals(det) ==
    IF det.ready /\ det.phase = "DOUBLE_SUPPORT" /\ det.leg = "INVALID"
    THEN Uninit ELSE {<<NaNVec, NaNVec>>}

Init ==
    /\ state = 0
    /\ gaitDirectionBuffer = <<>>
    /\ \E u \in Uninit : totalForceAtThs = u[1] /\ totalMomentAtThs = u[2]
    /\ Tds \in TdsValues
    /\ Tss \in TssValues
    /\ now = 0
    /\ pc = "idle"
    /\ input = NoInput
    /\ detector = NoDetector
    /\ total = NoTotal
    /\ output = NoOutput
    /\ methodName = <<"n", "e">>
    /\ method = "NewtonEuler"
    /\ latchedAt = -1

\* ------------------------------------------------------------------------
\* solve
\* ------------------------------------------------------------------------
computeGaitDirectionRotation(buf) ==
    GaitRotation(projectionOnPlane(BufferMean(buf)))

insertHeadingTwice(buf, q) ==
    BufferInsert(BufferInsert(buf, PelvisHeading(q)), PelvisHeading(q))

\* gaitDirectionBuffer.insert of the pelvis heading of the realized state
insertHeading(buf, q) == BufferInsert(buf, PelvisHeading(q))

heelStrikeAnchorUnlessInvalidLeg(time, det, totalNow, atThs) ==
    IF time = 0 /\ ~(det.phase = "DOUBLE_SUPPORT" /\ det.leg = "INVALID")
    THEN totalNow ELSE atThs

heelStrikeAnchorInDoubleSupport(time, det, totalNow, atThs) ==
    IF time = 0 /\ det.phase = "DOUBLE_SUPPORT" THEN totalNow ELSE atThs

\* the anchor after the test of the time since the last heel strike
heelStrikeAnchor(time, det, totalNow, atThs) ==
    IF time = 0 THEN totalNow ELSE atThs

SolveReady(in, det, u) ==
    \E buf \in {insertHeading(gaitDirectionBuffer, in.q)} :
    \E R \in {computeGaitDirectionRotation(buf)} :
    \E totalReactionForce \in {Rotate(R, TotalForce(in.q, in.qDDot))} :
    \E totalReactionMoment \in {Rotate(R, TotalMoment(in.q, in.qDDot))} :
    \E time \in {in.t - det.Ths} :
    \E forceAtThs \in
          {heelStrikeAnchor(time, det, totalReactionForce, totalForceAtThs)} :
    \E momentAtThs \in
          {heelStrikeAnchor(time, det, totalReactionMoment,
                            totalMomentAtThs)} :
    \E forces \in {seperateReactionComponents(
                       time, totalReactionForce, forceAtThs, det.Tds,
                       det.phase, det.leg, u[1], u[2])} :
    \E moments \in {seperateReactionComponents(
                        time, totalReactionMoment, momentAtThs, det.Tds,
                        det.phase, det.leg, u[1], u[2])} :
    \E points \in {computeReactionPoint(in.t, in.q, det.Tss, det.phase,
                                        det.leg, det.Tto, u[1], u[2])} :
        /\ state' = in.q
        /\ gaitDirectionBuffer' = buf
        /\ totalForceAtThs' = forceAtThs
        /\ totalMomentAtThs' = momentAtThs
        /\ Tds' = det.Tds
        /\ Tss' = det.Tss
        /\ latchedAt' = IF time = 0 THEN det.Ths ELSE latchedAt
        /\ total' = [force |-> totalReactionForce,
                     moment |-> totalReactionMoment]
        /\ output' = [t |-> in.t,
                      right |-> [force |-> forces.right,
                                 torque |-> moments.right,
                                 point |-> points.right],
                      left |-> [force |-> forces.left,
                                torque |-> moments.left,
                                point |-> points.left]]

SolveNotReadyPushesState(in) ==
    /\ output' = [NoOutput EXCEPT !.t = in.t]
    /\ total' = NoTotal
    /\ state' = in.q
    /\ UNCHANGED <<gaitDirectionBuffer, totalForceAtThs, totalMomentAtThs,
                   Tds, Tss, latchedAt>>

SolveNotReadyNoEcho(in) ==
    /\ output' = NoOutput
    /\ total' = NoTotal
    /\ UNCHANGED <<engine, latchedAt>>

SolveNotReady(in) ==
    /\ output' = [NoOutput EXCEPT !.t = in.t]
    /\ total' = NoTotal
    /\ UNCHANGED <<engine, latchedAt>>

\* a call of solve with a sample of the poses P and one of the readings Rd
SolveFrom(P, Rd) ==
    /\ pc = "idle"
    /\ \E t \in now..MaxTime, q \in P, a \in Accels, det \in Rd :
         LET in == [t |-> t, q |-> q, qDDot |-> a]
         IN  /\ now' = t
             /\ input' = in
             /\ detector' = det
             /\ IF det.ready
                THEN \E u \in Locals(det) : SolveReady(in, det, u)
                ELSE SolveNotReady(in)
    /\ pc' = "done"
    /\ UNCHANGED <<methodName, method>>

Solve == SolveFrom(Poses, Readings)

\* the caller takes the record and goes on to its next sample
Return ==
    /\ pc = "done"
    /\ pc' = "idle"
    /\ input' = NoInput
    /\ detector' = NoDetector
    /\ total' = NoTotal
    /\ output' = NoOutput
    /\ UNCHANGED <<engine, now, methodName, method, latchedAt>>

Next == Solve \/ Return

Spec == Init /\ [][Next]_vars

\* ------------------------------------------------------------------------
\* Gait direction over headings on every side of the forward axis
\* ------------------------------------------------------------------------
\* poses whose pelvis points forward, to the right, backward and to the left
DirectionPoses == 1..4
\* a ready detector in a left swing
DirectionReadings ==
    {[NoDetector EXCEPT !.ready = TRUE, !.phase = "LEFT_SWING", !.Ths = ths,
                        !.Tds = 2, !.Tss = 4] : ths \in Times}

SolveDirection == SolveFrom(DirectionPoses, DirectionReadings)

NextDirection == SolveDirection \/ Return

SpecDirection == Init /\ [][NextDirection]_vars

\* ------------------------------------------------------------------------
\* selectMethod
\* ------------------------------------------------------------------------
\* a string is a sequence of one-character strings
UpperCase == <<"A", "B", "C", "D", "E", "F", "G", "H", "I", "J", "K", "L", "M",
               "N", "O", "P", "Q", "R", "S", "T", "U", "V", "W", "X", "Y", "Z">>
LowerCase == <<"a", "b", "c", "d", "e", "f", "g", "h", "i", "j", "k", "l", "m",
               "n", "o", "p", "q", "r", "s", "t", "u", "v", "w", "x", "y", "z">>

ToLowerChar(c) ==
    IF \E i \in 1..26 : UpperCase[i] = c
    THEN LowerCase[CHOOSE i \in 1..26 : UpperCase[i] = c]
    ELSE c
\* String::toLower
toLower(str) == [i \in 1..Len(str) |-> ToLowerChar(str[i])]

validNENames ==
    {<<"n", "e", "w", "t", "o", "n", "e", "u", "l", "e", "r">>,
     <<"n", "e", "w", "t", "o", "n", "-", "e", "u", "l", "e", "r">>,
     <<"n", "e", "w", "t", "o", "n", "_", "e", "u", "l", "e", "r">>,
     <<"n", "e">>}
validIDNames ==
    {<<"i", "n", "v", "e", "r", "s", "e", "d", "y", "n", "a", "m", "i", "c", "s">>,
     <<"i", "n", "v", "e", "r", "s", "e", "-", "d", "y", "n", "a", "m", "i", "c",
       "s">>,
     <<"i", "n", "v", "e", "r", "s", "e", "_", "d", "y", "n", "a", "m", "i", "c",
       "s">>,
     <<"i", "d">>}

selectMethodCaseSensitive(name) ==
    IF name \in validNENames THEN "NewtonEuler"
    ELSE IF name \in validIDNames THEN "InverseDynamics"
    ELSE "exception"

\* the method selected, or "exception" when THROW_EXCEPTION is reached
selectMethod(name) ==
    IF toLower(name) \in validNENames THEN "NewtonEuler"
    ELSE IF toLower(name) \in validIDNames THEN "InverseDynamics"
    ELSE "exception"

\* letters the short names are drawn from
NameLetters == {"n", "e", "N", "E", "i", "d", "I", "D", "-", "_", "x"}
\* the names tried: every string of at most MaxNameLen letters, and the
\* long names in several spellings
MethodNames ==
    UNION {[1..n -> NameLetters] : n \in 0..MaxNameLen}
    \cup validNENames \cup validIDNames
    \cup {<<"N", "e", "w", "t", "o", "n", "-", "E", "u", "l", "e", "r">>,
          <<"N", "E", "W", "T", "O", "N", "E", "U", "L", "E", "R">>,
          <<"n", "e", "w", "t", "o", "n", " ", "e", "u", "l", "e", "r">>,
          <<"I", "n", "v", "e", "r", "s", "e", "_", "D", "y", "n", "a", "m",
            "i", "c", "s">>,
          <<"I", "N", "V", "E", "R", "S", "E", "D", "Y", "N", "A", "M", "I",
            "C", "S">>,
          <<"i", "n", "v", "e", "r", "s", "e">>,
          <<"b", "o", "g", "u", "s">>}

InitMethod ==
    /\ state = 0
    /\ gaitDirectionBuffer = <<>>
    /\ totalForceAtThs = NaNVec
    /\ totalMomentAtThs = NaNVec
    /\ Tds = 0
    /\ Tss = 0
    /\ now = 0
    /\ pc = "config"
    /\ input = NoInput
    /\ detector = NoDetector
    /\ total = NoTotal
    /\ output = NoOutput
    /\ methodName \in MethodNames
    /\ method = "unset"
    /\ latchedAt = -1

\* the configuration step that turns the method name into a method
SelectMethod ==
    /\ pc = "config"
    /\ method = "unset"
    /\ method' = selectMethod(methodName)
    /\ UNCHANGED <<engine, now, pc, input, detector, total, output,
                   methodName, latchedAt>>

NextMethod == SelectMethod

SpecMethod == InitMethod /\ [][NextMethod]_vars

\* ------------------------------------------------------------------------
\* Properties
\* ------------------------------------------------------------------------
Returned == pc = "done"
ReadyCall == Returned /\ detector.ready
DoubleSupportCall == ReadyCall /\ detector.phase = "DOUBLE_SUPPORT"
ValidLeadingLeg == detector.leg \in {"RIGHT", "LEFT"}
SwingCall == ReadyCall /\ detector.phase \in {"LEFT_SWING", "RIGHT_SWING"}

\* the rotated total reaction of the returned call, from its sample and the
\* headings in the buffer
RotatedForce ==
    Rotate(computeGaitDirectionRotation(gaitDirectionBuffer),
           TotalForce(input.q, input.qDDot))
RotatedMoment ==
    Rotate(computeGaitDirectionRotation(gaitDirectionBuffer),
           TotalMoment(input.q, input.qDDot))

LeadingOut == IF detector.leg = "RIGHT" THEN output.right ELSE output.left
TrailingOut == IF detector.leg = "RIGHT" THEN output.left ELSE output.right
StanceOut == IF detector.phase = "LEFT_SWING" THEN output.right ELSE output.left
AirborneOut ==
    IF detector.phase = "LEFT_SWING" THEN output.left ELSE output.right
FiniteVec(v) == \A i \in 1..3 : IsFin(v[i])
InUnit(a) == IsFin(a) /\ 0 <= a.v /\ a.v <= 1000

\* C1: a call made while the detector is not ready returns zero force,
\* torque and CoP for both legs and the timestamp of its input.
C1_NotReadyZeroRecord ==
    (Returned /\ ~detector.ready) =>
        output = [t |-> input.t, right |-> ZeroLeg, left |-> ZeroLeg]

\* a not-ready call with a non-zero timestamp on an engine that has already
\* solved ready samples
C1_Witness ==
    /\ Returned /\ ~detector.ready
    /\ input.t > 0
    /\ gaitDirectionBuffer # <<>>

\* C2: in a swing phase the stance leg (right in LEFT_SWING, left in
\* RIGHT_SWING) receives the rotated total force and moment, and the
\* swinging leg's force and moment are zero.
C2_SwingAttribution ==
    SwingCall =>
        /\ StanceOut.force = RotatedForce
        /\ StanceOut.torque = RotatedMoment
        /\ AirborneOut.force = ZeroVec
        /\ AirborneOut.torque = ZeroVec

\* a left-swing call whose rotation is not the identity
C2_Witness ==
    /\ SwingCall /\ detector.phase = "LEFT_SWING"
    /\ RotatedForce # TotalForce(input.q, input.qDDot)
    /\ output.right.force = RotatedForce
    /\ output.right.force # ZeroVec

C4_LeadingToeTrailingHeel ==
    (DoubleSupportCall /\ ValidLeadingLeg) =>
        IF detector.leg = "RIGHT"
        THEN output.right.point = ToeR(input.q)
             /\ output.left.point = HeelL(input.q)
        ELSE output.left.point = ToeL(input.q)
             /\ output.right.point = HeelR(input.q)

\* C4 amended: the leading leg's CoP is its heel point and the trailing
\* leg's CoP is its toe point (leading Right: right CoP = right heel, left
\* CoP = left toe; leading Left: left CoP = left heel, right CoP = right toe).
C4_LeadingHeelTrailingToe ==
    (DoubleSupportCall /\ ValidLeadingLeg) =>
        IF detector.leg = "RIGHT"
        THEN output.right.point = HeelR(input.q)
             /\ output.left.point = ToeL(input.q)
        ELSE output.left.point = HeelL(input.q)
             /\ output.right.point = ToeR(input.q)

\* a double support led by the right leg
C4_Witness ==
    /\ DoubleSupportCall /\ detector.leg = "RIGHT"
    /\ output.right.point = HeelR(input.q)
    /\ output.left.point = ToeL(input.q)

\* C5: a ready double-support call with leading leg Invalid returns zero
\* force, torque and CoP for both legs.
C5_InvalidLeadingLegZero ==
    (DoubleSupportCall /\ detector.leg = "INVALID") =>
        /\ output.right = ZeroLeg
        /\ output.left = ZeroLeg

\* C6: in a double support with a valid leading leg whose timestamp is the
\* last heel-strike time, the transition function is 1 for whatever Tds is
\* reported, and the trailing leg's force and moment are the anchor.
C6_TrailingIsAnchorAtHeelStrike ==
    (DoubleSupportCall /\ ValidLeadingLeg /\ input.t = detector.Ths) =>
        /\ reactionComponentTransition(input.t - detector.Ths, detector.Tds)
               = Fin(1000)
        /\ TrailingOut.force = totalForceAtThs
        /\ TrailingOut.torque = totalMomentAtThs

\* C7: a ready call whose phase is none of double support, left swing and
\* right swing returns zero force, moment and CoP for both legs.
C7_InvalidPhaseZero ==
    (ReadyCall /\ detector.phase \notin
                      {"DOUBLE_SUPPORT", "LEFT_SWING", "RIGHT_SWING"}) =>
        /\ output.right = ZeroLeg
        /\ output.left = ZeroLeg

\* a ready call with an invalid phase whose total reaction is not zero
C7_Witness ==
    /\ ReadyCall /\ detector.phase = "INVALID"
    /\ total.force # ZeroVec
    /\ input.t > 0

\* heel and toe point of the stance leg of the returned call
StanceHeel ==
    IF detector.phase = "LEFT_SWING" THEN HeelR(input.q) ELSE HeelL(input.q)
StanceToe ==
    IF detector.phase = "LEFT_SWING" THEN ToeR(input.q) ELSE ToeL(input.q)

\* C8: in single support the airborne leg's CoP is zero and the stance
\* leg's CoP is heel + s (toe - heel), s being the progress factor at the
\* time since the last toe-off with the Tss of this call; s is 0, and the
\* CoP the heel point, when that time is 0.
C8_SingleSupportCoP ==
    SwingCall =>
        /\ AirborneOut.point = ZeroVec
        /\ StanceOut.point =
               VAdd(StanceHeel,
                    VScale(copScale(input.t - detector.Tto, detector.Tss),
                           VSub(StanceToe, StanceHeel)))
        /\ input.t = detector.Tto =>
               /\ copScale(0, detector.Tss) = Fin(0)
               /\ StanceOut.point = StanceHeel

\* a right swing part of the way from the heel to the toe
C8_Witness ==
    /\ SwingCall /\ detector.phase = "RIGHT_SWING"
    /\ input.t > detector.Tto
    /\ copScale(input.t - detector.Tto, detector.Tss).v \in 1..999
    /\ output.left.point # HeelL(input.q)
    /\ output.left.point # ToeL(input.q)

\* C9: for every elapsed time and every Tds and Tss reported, zero
\* included, the value of the double-support transition function and the
\* scale factor of the single-support CoP function lie in [0, 1].
C9_BlendFactorsInUnitInterval ==
    ReadyCall =>
        /\ InUnit(reactionComponentTransition(input.t - detector.Ths,
                                              detector.Tds))
        /\ InUnit(copScale(input.t - detector.Tto, detector.Tss))

\* a double support with a zero Tds at the heel-strike instant, where the
\* exponent is 0/0
C9_Witness ==
    /\ DoubleSupportCall
    /\ detector.Tds = 0
    /\ input.t = detector.Ths
    /\ IsNaN(TransitionRaw(input.t - detector.Ths, detector.Tds))

\* name is target with some of its letters in upper case
UpperOf(c) ==
    IF \E i \in 1..26 : LowerCase[i] = c
    THEN UpperCase[CHOOSE i \in 1..26 : LowerCase[i] = c]
    ELSE c
SpelledAs(name, target) ==
    /\ Len(name) = Len(target)
    /\ \A i \in 1..Len(name) :
         name[i] = target[i] \/ name[i] = UpperOf(target[i])

\* C10: selectMethod returns NewtonEuler for exactly the spellings, in any
\* case, of newtoneuler, newton-euler, newton_euler and ne, InverseDynamics
\* for exactly those of inversedynamics, inverse-dynamics, inverse_dynamics
\* and id, and raises the configuration error for every other name.
C10_SelectMethod ==
    method # "unset" =>
        LET isNE == \E target \in validNENames : SpelledAs(methodName, target)
            isID == \E target \in validIDNames : SpelledAs(methodName, target)
        IN  /\ (method = "NewtonEuler") <=> isNE
            /\ (method = "InverseDynamics") <=> isID
            /\ (method = "exception") <=> (~isNE /\ ~isID)

\* a mixed-case alias resolved to NewtonEuler
C10_Witness ==
    /\ method = "NewtonEuler"
    /\ methodName = <<"N", "e", "w", "t", "o", "n", "-", "E", "u", "l", "e",
                      "r">>

\* the engine state a ready call leaves, from the state before it, its
\* sample and the detector's readings other than the leading leg
EngineAfter(in, det) ==
    LET buf == BufferInsert(gaitDirectionBuffer, PelvisHeading(in.q))
        R == computeGaitDirectionRotation(buf)
        latch == in.t = det.Ths
    IN  <<in.q, buf,
          IF latch THEN Rotate(R, TotalForce(in.q, in.qDDot))
          ELSE totalForceAtThs,
          IF latch THEN Rotate(R, TotalMoment(in.q, in.qDDot))
          ELSE totalMomentAtThs,
          det.Tds, det.Tss>>

\* C11: a double-support call with leading leg Invalid leaves the engine
\* state (model state, heading buffer, anchor, Tds, Tss) that the same call
\* with leading leg Right or Left would leave, so that every later call
\* returns what it would have returned.
C11_InvalidLegLocalized ==
    [][(pc' = "done" /\ detector'.ready
        /\ detector'.phase = "DOUBLE_SUPPORT" /\ detector'.leg = "INVALID") =>
           \A l \in {"RIGHT", "LEFT"} :
               engine' = EngineAfter(input', [detector' EXCEPT !.leg = l])]_vars

\* a heel-strike sample in double support with an invalid leading leg: the
\* anchor is latched although the outputs are not assigned
C11_Witness ==
    /\ DoubleSupportCall /\ detector.leg = "INVALID"
    /\ input.t = detector.Ths
    /\ input.t > 0
    /\ totalForceAtThs = RotatedForce
    /\ output.right.force # ZeroVec

\* C12: the anchor changes only in a ready call whose timestamp is the last
\* heel-strike time; it then becomes the rotated total force and moment of
\* that call, and the split of that call already uses it; every other call,
\* whatever its phase, leaves it unchanged.
C12_AnchorLatch ==
    [][IF pc' = "done" /\ detector'.ready /\ input'.t = detector'.Ths
       THEN /\ totalForceAtThs' = total'.force
            /\ totalMomentAtThs' = total'.moment
            /\ (detector'.phase = "DOUBLE_SUPPORT"
                /\ detector'.leg \in {"RIGHT", "LEFT"}
                /\ detector'.Tds # 0) =>
                   \A trailing \in {IF detector'.leg = "RIGHT"
                                    THEN output'.left ELSE output'.right} :
                       /\ trailing.force = total'.force
                       /\ trailing.torque = total'.moment
       ELSE UNCHANGED <<totalForceAtThs, totalMomentAtThs>>]_vars

\* a heel-strike sample in double support that replaces an older anchor
C12_Witness ==
    /\ DoubleSupportCall /\ ValidLeadingLeg
    /\ input.t = detector.Ths
    /\ input.t > 0
    /\ detector.Tds # 0
    /\ totalForceAtThs = RotatedForce
    /\ total.force = RotatedForce
    /\ TrailingOut.force = RotatedForce
    /\ Len(gaitDirectionBuffer) = directionWindowSize

\* the sum of component i of the first n headings of buf
RECURSIVE HeadingSum(_, _, _)
HeadingSum(buf, i, n) ==
    IF n = 0 THEN 0 ELSE buf[n][i] + HeadingSum(buf, i, n - 1)
\* the mean of the headings present in buf
MeanOfPresent(buf) ==
    [i \in 1..3 |-> HeadingSum(buf, i, Len(buf)) \div Len(buf)]
Smaller(a, b) == IF a < b THEN a ELSE b

\* C13: a ready call appends exactly one pelvis heading: the buffer grows by
\* one up to directionWindowSize, the new heading is its last element and
\* the elements before it are the most recent earlier ones in order; no
\* other step changes the buffer; the rotation of the call uses the mean of
\* exactly the headings present, also before the buffer is full.
C13_HeadingBuffer ==
    [][IF pc' = "done" /\ detector'.ready
       THEN LET old == gaitDirectionBuffer
                new == gaitDirectionBuffer'
            IN  /\ Len(new) = Smaller(Len(old) + 1, directionWindowSize)
                /\ new[Len(new)] = PelvisHeading(input'.q)
                /\ \A i \in 1..(Len(new) - 1) :
                       new[i] = old[Len(old) - (Len(new) - 1) + i]
                /\ \A R \in {GaitRotation(
                                  projectionOnPlane(MeanOfPresent(new)))} :
                       total'.force =
                           Rotate(R, TotalForce(input'.q, input'.qDDot))
       ELSE UNCHANGED gaitDirectionBuffer]_vars

\* a ready call on a full buffer that holds two different headings
C13_Witness ==
    /\ ReadyCall
    /\ Len(gaitDirectionBuffer) = directionWindowSize
    /\ gaitDirectionBuffer[1] # gaitDirectionBuffer[directionWindowSize]
    /\ gaitDirectionBuffer[directionWindowSize] = PelvisHeading(input.q)

\* the projected mean heading of the returned call
MeanHeading == projectionOnPlane(BufferMean(gaitDirectionBuffer))

\* C14: for every non-zero horizontal mean heading, on either side of the
\* forward axis and forward or backward, the rotation returned maps the
\* projected mean heading onto the direction of +x (a positive x component
\* and, up to rounding, no z component).
C14_RotationAlignsHeading ==
    (ReadyCall /\ MeanHeading # <<0, 0, 0>>) =>
        LET r == Rotate(computeGaitDirectionRotation(gaitDirectionBuffer),
                        Vec(MeanHeading[1], MeanHeading[2], MeanHeading[3]))
        IN  /\ FiniteVec(r)
            /\ r[1].v > 0
            /\ Abs(r[3].v) <= 2

\* C15: a call made while the detector is not ready leaves the model state,
\* the heading buffer, the anchor, Tds and Tss as they were, also when its
\* timestamp is the detector's heel-strike time.
C15_NotReadyNoEffect ==
    [][(pc' = "done" /\ ~detector'.ready) => UNCHANGED engine]_vars

\* a not-ready call at the heel-strike time, with a sample that differs from
\* the model state, on an engine that has solved before
C15_Witness ==
    /\ Returned /\ ~detector.ready
    /\ input.t = detector.Ths
    /\ input.t > 0
    /\ input.q # state
    /\ state # 0

\* C16: in every ready double-support call with a valid leading leg the
\* anchor was latched by a ready call whose timestamp is the detector's
\* current last heel-strike time.
C16_AnchorFromCurrentHeelStrike ==
    (DoubleSupportCall /\ ValidLeadingLeg) => latchedAt = detector.Ths

====
